---- MODULE Spec2Model ----
(***************************************************************************)
(* Rendered-content extraction engine of py-crawler.                       *)
(*                                                                         *)
(*  SpecBatch : hwpx/extractor.py populate_document_contents driving one   *)
(*              HwpxExtractionSession (WebTextExtractor start/close), and  *)
(*              the collector's try/except around it.                      *)
(*  SpecCrawl : naver/collector.py collect_keyword and the markdown        *)
(*              pipeline _acrawl_markdown.                                 *)
(*  SpecNorm  : hwpx/parsers.py normalize_preview_urls, applied once by    *)
(*              extract_preview_urls and again by collect_preview_urls.    *)
(*  SpecResolve : hwpx/parsers.py extract_preview_urls on a parsed page.   *)
(*  SpecPreview : hwpx/preview.py collect_preview_urls, rendered fetch and *)
(*              static fetch.                                              *)
(*  SpecScroll : the scroll loop of _scroll_and_get_text.                  *)
(*  SpecClean : WebTextExtractor._clean_text.                              *)
(*  SpecListing : the listing loops of the KCA and MFDS collectors.        *)
(*  SpecFrames : _extract_text_with_iframe, the texts of the frames of one *)
(*              page merged and cleaned.                                   *)
(*  SpecSessions : the browser sessions of the batch and of the markdown   *)
(*              pipeline.                                                  *)
(***************************************************************************)
EXTENDS Integers, Sequences, FiniteSets, TLC

VARIABLES
    \* ---- hwpx batch (SpecBatch)
    documents,      \* Sequence["HwpxDocument"]: [preview_urls, content]
    playwright,     \* WebTextExtractor.playwright : "unset" | "live" | "stopped"
    browser,        \* WebTextExtractor.browser    : "unset" | "live" | "closed"
    page,           \* WebTextExtractor.page       : "unset" | "live" | "closed"
    bpc,            \* position of populate_document_contents
    di,             \* index of the document the outer for loop is at
    ci,             \* index of the candidate the inner for loop is at
    last_text,      \* local last_text of _populate_documents_async
    exc,            \* exception travelling through __aexit__
    extracted,      \* history: per document, the texts session.extract returned
    closeLog,       \* history: the order in which resources were torn down
    failed,         \* history: whether an extraction failed: "never", or
                    \* the "last" one did, or only an "earlier" one
    starts,         \* history: how many times start_browser was called
    visited,        \* history: the (document, url) navigated to, in order
    navigating,     \* history: page.goto calls in flight
    crashed,        \* whether the browser process of the session is gone
    \* ---- markdown pipeline (SpecCrawl)
    items,          \* links of the search items of collect_keyword
    articles,       \* List[NaverArticle] built by collect_keyword
    crawl_retries,  \* NaverCollector.crawl_retries
    kpc,            \* position of collect_keyword / _acrawl_markdown
    ii,             \* index of the item the for loop is at
    attempt,        \* loop variable of _acrawl_markdown
    crawler,        \* AsyncWebCrawler of the attempt: "none" | "open" | "closed"
    render,         \* crawler.arun of the attempt: "idle"|"running"|"done"|"failed"|"cancelled"
    pending,        \* what leaves the async-with block: fall, return or exception
    outcomes,       \* history: outcome of each attempt of the current url
    sleeps,         \* history: inter-attempt delays slept for the current url
    lastResult,     \* history: the last result object arun returned
    sessions,       \* history: crawler sessions entered and not yet exited
    loop,           \* the event loop while the task is where kpc says:
                    \* "free" | "blocked" | "idle"
    \* ---- preview url normalisation (SpecNorm)
    raw,            \* the raw union handed to normalize_preview_urls
    once,           \* normalize_preview_urls(raw)
    twice,          \* normalize_preview_urls(once)
    npc,            \* "input" | "normalized" | "renormalized", or the
                    \* position of collect_preview_urls
    \* ---- preview url resolution (SpecPreview)
    soup,           \* the parsed page extract_preview_urls last read
    rendered,       \* outcome of _render_html      : "none" | "ok" | "failed"
    fetched,        \* outcome of the static fetch  : "none" | "ok" | "failed"
    \* ---- scroll loop of _scroll_and_get_text (SpecScroll)
    frame,          \* the frame: whether and after which step it stops moving
    scrollY,        \* window.scrollY
    lastY,          \* let lastY
    sameCount,      \* let sameCount
    iter,           \* iterations of the for loop performed so far
    spc,            \* "loop" | "done"
    ended,          \* how the loop was left: "none" | "break" | "cap"
    \* ---- text cleaning (SpecClean)
    dirty,          \* the text handed to _clean_text, as its characters
    cleaned,        \* what _clean_text returned
    tpc,            \* "dirty" | "clean"
    \* ---- listing loops of the collectors (SpecListing)
    site,           \* the collector: "kca" | "mfds"
    entries,        \* per listing item, the preview urls its page yields
    ei,             \* index of the item the loop is at
    listed,         \* documents: List[HwpxDocument] built so far
    lpc,            \* "loop" | "done" | "raised"
    lexc,           \* the exception that left collect
    \* ---- text of one page, _extract_text_with_iframe (SpecFrames)
    frames,         \* self.page.frames, as the body text of each frame
    inner,          \* which frame iframe#innerWrap holds (0: no such iframe)
    cleaning,       \* the clean_text argument of extract_text_from_url
    collected,      \* collected = []
    fi,             \* index of the frame the for loop is at
    merged,         \* merged
    ptext,          \* what _extract_text_with_iframe returned
    output,         \* what extract_text_from_url returned
    xpc,            \* "inner" | "walk" | "merge" | "body" | "return" | "done"
    reads           \* history: the frames read, and whether text came back

batchVars == <<documents, playwright, browser, page, bpc, di, ci, last_text,
               exc, extracted, closeLog, failed, starts, visited, navigating,
               crashed>>
crawlVars == <<items, articles, crawl_retries, kpc, ii, attempt, crawler,
               render, pending, outcomes, sleeps, lastResult, sessions,
               loop>>
normVars == <<raw, once, twice, npc>>
previewVars == <<soup, rendered, fetched>>
scrollVars == <<frame, scrollY, lastY, sameCount, iter, spc, ended>>
cleanVars == <<dirty, cleaned, tpc>>
listVars == <<site, entries, ei, listed, lpc, lexc>>
framesVars == <<frames, inner, cleaning, collected, fi, merged, ptext, output,
                xpc, reads>>
vars == <<batchVars, crawlVars, normVars, previewVars, scrollVars, cleanVars,
          listVars, framesVars>>
notBatch ==
    <<crawlVars, normVars, previewVars, scrollVars, cleanVars, listVars,
      framesVars>>
notCrawl ==
    <<batchVars, normVars, previewVars, scrollVars, cleanVars, listVars,
      framesVars>>
notNorm ==
    <<batchVars, crawlVars, previewVars, scrollVars, cleanVars, listVars,
      framesVars>>
notPreview ==
    <<batchVars, crawlVars, scrollVars, cleanVars, listVars, framesVars>>
notScroll ==
    <<batchVars, crawlVars, normVars, previewVars, cleanVars, listVars,
      framesVars>>
notClean ==
    <<batchVars, crawlVars, normVars, previewVars, scrollVars, listVars,
      framesVars>>
notListing ==
    <<batchVars, crawlVars, normVars, previewVars, scrollVars, cleanVars,
      framesVars>>
notFrames ==
    <<batchVars, crawlVars, normVars, previewVars, scrollVars, cleanVars,
      listVars>>

(***************************************************************************)
(* Bounds of the model.                                                    *)
(***************************************************************************)
MaxDocs == 2
MaxCands == 2
MaxItems == 2
MaxRetries == 2
MaxUrls == 2
MaxElems == 2
MaxFetched == 1
MaxText == 4
MaxEntries == 3
MaxFrames == 3

(***************************************************************************)
(* Python values.                                                          *)
(***************************************************************************)
None == "None"

Truthy(v) == v # None /\ v # ""

Range(s) == {s[i] : i \in 1..Len(s)}

SeqsUpTo(S, n) == UNION {[1..k -> S] : k \in 0..n}

SetsUpTo(S, n) == {Range(f) : f \in SeqsUpTo(S, n)}

(***************************************************************************)
(* hwpx/extractor.py : the batch                                           *)
(***************************************************************************)
Texts == {"", "Hello", "World"}

CandidateUrls(n) == [k \in 1..n |-> k]

NewDocument(n) == [preview_urls |-> CandidateUrls(n), content |-> None]

InitBatch ==
    /\ documents \in {[k \in 1..Len(ns) |-> NewDocument(ns[k])] :
                        ns \in SeqsUpTo(0..MaxCands, MaxDocs)}
    /\ playwright = "unset"
    /\ browser = "unset"
    /\ page = "unset"
    /\ bpc = "call"
    /\ di = 1
    /\ ci = 1
    /\ last_text = None
    /\ exc = "none"
    /\ extracted = [k \in 1..Len(documents) |-> <<>>]
    /\ closeLog = <<>>
    /\ failed = "never"
    /\ starts = 0
    /\ visited = <<>>
    /\ navigating = 0
    /\ crashed = FALSE

\* populate_document_contents: an empty batch starts no browser.
Populate ==
    /\ bpc = "call"
    /\ bpc' = IF Len(documents) = 0 THEN "returned" ELSE "start_playwright"
    /\ UNCHANGED <<documents, playwright, browser, page, di, ci, last_text,
                   exc, extracted, closeLog, failed, starts, visited,
                   navigating, crashed>>
    /\ UNCHANGED notBatch

\* What an await of start_browser may raise: an error of the browser
\* driver, or the cancellation of the task.
StartFailures == {"Error", "CancelledError"}

\* start_browser, first await: async_playwright().start().  A failure or a
\* cancellation leaves __aenter__ and the async-with statement: __aexit__ is
\* not run for a scope that was never entered.
StartPlaywright ==
    /\ bpc = "start_playwright"
    /\ starts' = starts + 1
    /\ \/ /\ playwright' = "live"
          /\ bpc' = "launch"
          /\ UNCHANGED exc
       \/ /\ bpc' = "raised"
          /\ exc' \in StartFailures
          /\ UNCHANGED playwright
    /\ UNCHANGED <<documents, browser, page, di, ci, last_text, extracted,
                   closeLog, failed, visited, navigating, crashed>>
    /\ UNCHANGED notBatch

LaunchBrowser ==
    /\ bpc = "launch"
    /\ \/ /\ browser' = "live"
          /\ bpc' = "new_page"
          /\ UNCHANGED exc
       \/ /\ bpc' = "raised"
          /\ exc' \in StartFailures
          /\ UNCHANGED browser
    /\ UNCHANGED <<documents, playwright, page, di, ci, last_text, extracted,
                   closeLog, failed, starts, visited, navigating, crashed>>
    /\ UNCHANGED notBatch

NewPage ==
    /\ bpc = "new_page"
    /\ \/ /\ page' = "live"
          /\ bpc' = "document"
          /\ UNCHANGED exc
       \/ /\ bpc' = "raised"
          /\ exc' \in StartFailures
          /\ UNCHANGED page
    /\ UNCHANGED <<documents, playwright, browser, di, ci, last_text,
                   extracted, closeLog, failed, starts, visited, navigating,
                   crashed>>
    /\ UNCHANGED notBatch

CarriedLastText(previous) == previous

\* last_text: str | None = None, once per document.
InitLastText(previous) == None

\* for document in documents: if not document.preview_urls: continue
NextDocument ==
    /\ bpc = "document"
    /\ IF di > Len(documents)
         THEN /\ bpc' = "close_page"
              /\ UNCHANGED <<di, ci, last_text>>
         ELSE IF Len(documents[di].preview_urls) = 0
                THEN /\ di' = di + 1
                     /\ UNCHANGED <<bpc, ci, last_text>>
                ELSE /\ bpc' = "extract"
                     /\ ci' = 1
                     /\ last_text' = InitLastText(last_text)
                     /\ UNCHANGED di
    /\ UNCHANGED <<documents, playwright, browser, page, exc, extracted,
                   closeLog, failed, starts, visited, navigating, crashed>>
    /\ UNCHANGED notBatch

KeepAll(last, text) == text

\* if text: last_text = text
KeepText(last, text) == IF Truthy(text) THEN text ELSE last

\* if last_text: document.content = last_text
AssignContent(document, last) ==
    IF Truthy(last) THEN [document EXCEPT !.content = last] ELSE document

UrlAtReversed(urls, c) == urls[Len(urls) + 1 - c]

\* for url in document.preview_urls: the url of the c-th iteration
UrlAt(urls, c) == urls[c]

\* text = await session.extract(url), up to its first await:
\* extract_text_from_url calls self.page.goto(url).
Navigate ==
    /\ bpc = "extract"
    /\ visited' = Append(visited,
                         <<di, UrlAt(documents[di].preview_urls, ci)>>)
    /\ navigating' = navigating + 1
    /\ bpc' = "goto"
    /\ UNCHANGED <<documents, playwright, browser, page, di, ci, last_text,
                   exc, extracted, closeLog, failed, starts, crashed>>
    /\ UNCHANGED notBatch

\* How the awaits of extract_text_from_url may end: with the text of the
\* page, with an error of the navigation or of the extraction, or with the
\* cancellation of the task.
ExtractOutcomes ==
    [kind : {"text"}, text : Texts]
        \cup [kind : {"Error", "CancelledError"}, text : {""}]

\* What an error of the navigation or of the extraction leaves behind: the
\* browser still runs (an error of the network class), or its process is
\* gone.
Aftermaths(kind) == IF kind = "Error" THEN BOOLEAN ELSE {FALSE}

\* With the browser process gone, every call on self.page raises.
PossibleOn(gone, kind) == ~gone \/ kind # "text"

CatchesNothing(kind) == FALSE

\* except Exception as e: ... return ""
CaughtByExtract(kind) == kind = "Error"

\* The rest of text = await session.extract(url), and the statements of the
\* loops that follow it.  extract_text_from_url returns the text, or ""
\* when anything below it raised an Exception; a CancelledError is no
\* Exception and leaves through __aexit__.
Extract ==
    /\ bpc = "goto"
    /\ navigating' = navigating - 1
    /\ \E outcome \in ExtractOutcomes :
       /\ PossibleOn(crashed, outcome.kind)
       /\ \E gone \in Aftermaths(outcome.kind) : crashed' = (crashed \/ gone)
       /\ IF outcome.kind = "text" \/ CaughtByExtract(outcome.kind)
               THEN LET kept == KeepText(last_text, outcome.text) IN
                    /\ extracted' = [extracted EXCEPT
                                        ![di] = Append(@, outcome.text)]
                    /\ failed' = IF outcome.kind # "text" THEN "last"
                                 ELSE IF failed = "never" THEN "never"
                                 ELSE "earlier"
                    /\ IF ci < Len(documents[di].preview_urls)
                         THEN /\ ci' = ci + 1
                              /\ last_text' = kept
                              /\ bpc' = "extract"
                              /\ UNCHANGED <<documents, di>>
                         ELSE /\ documents' =
                                    [documents EXCEPT
                                        ![di] = AssignContent(@, kept)]
                              /\ last_text' = kept
                              /\ di' = di + 1
                              /\ bpc' = "document"
                              /\ UNCHANGED ci
                    /\ UNCHANGED exc
               ELSE /\ exc' = outcome.kind
                    /\ bpc' = "close_page"
                    /\ UNCHANGED <<documents, di, ci, last_text, extracted,
                                   failed>>
    /\ UNCHANGED <<playwright, browser, page, closeLog, starts, visited>>
    /\ UNCHANGED notBatch

\* close_browser: if self.page: await self.page.close()
ClosePage ==
    /\ bpc = "close_page"
    /\ IF page # "unset"
         THEN /\ page' = "closed"
              /\ closeLog' = Append(closeLog, "page")
         ELSE UNCHANGED <<page, closeLog>>
    /\ bpc' = "close_browser"
    /\ UNCHANGED <<documents, playwright, browser, di, ci, last_text, exc,
                   extracted, failed, starts, visited, navigating, crashed>>
    /\ UNCHANGED notBatch

\* if self.browser: await self.browser.close()
CloseBrowser ==
    /\ bpc = "close_browser"
    /\ IF browser # "unset"
         THEN /\ browser' = "closed"
              /\ closeLog' = Append(closeLog, "browser")
         ELSE UNCHANGED <<browser, closeLog>>
    /\ bpc' = "stop_playwright"
    /\ UNCHANGED <<documents, playwright, page, di, ci, last_text, exc,
                   extracted, failed, starts, visited, navigating, crashed>>
    /\ UNCHANGED notBatch

\* if self.playwright: await self.playwright.stop(); then __aexit__ returns
\* None, so a travelling exception goes on to the caller.
StopPlaywright ==
    /\ bpc = "stop_playwright"
    /\ IF playwright # "unset"
         THEN /\ playwright' = "stopped"
              /\ closeLog' = Append(closeLog, "playwright")
         ELSE UNCHANGED <<playwright, closeLog>>
    /\ bpc' = IF exc = "none" THEN "returned" ELSE "raised"
    /\ UNCHANGED <<documents, browser, page, di, ci, last_text, exc,
                   extracted, failed, starts, visited, navigating, crashed>>
    /\ UNCHANGED notBatch

CollectorCatchesNothing(kind) == FALSE

\* except Exception as exc: print(...)
CaughtByCollector(kind) == kind = "Error"

\* The collector around populate_document_contents:
\* try: populate_document_contents(documents, ...) except Exception: ...
\* return documents
CollectorReturn ==
    /\ bpc \in {"returned", "raised"}
    /\ bpc' = IF bpc = "returned" \/ CaughtByCollector(exc)
                THEN "collected" ELSE "propagated"
    /\ UNCHANGED <<documents, playwright, browser, page, di, ci, last_text,
                   exc, extracted, closeLog, failed, starts, visited,
                   navigating, crashed>>
    /\ UNCHANGED notBatch

NextBatch ==
    \/ Populate
    \/ StartPlaywright
    \/ LaunchBrowser
    \/ NewPage
    \/ NextDocument
    \/ Navigate
    \/ Extract
    \/ ClosePage
    \/ CloseBrowser
    \/ StopPlaywright
    \/ CollectorReturn

(***************************************************************************)
(* naver/collector.py : collect_keyword and _acrawl_markdown               *)
(***************************************************************************)
Links == {"", "u"}

Markdowns == {None, "", "Body text"}

\* What crawler.arun hands back: result.success and result.markdown's two
\* texts (a missing markdown object reads as both None).
Results == [success : BOOLEAN, fit : Markdowns, raw : Markdowns]

NoResult == [success |-> TRUE, fit |-> None, raw |-> None]

NoPending == [kind |-> "none", value |-> None]

\* return {"fit": None, "raw": None}
Marker == [fit |-> None, raw |-> None]

InitCrawl ==
    /\ items \in SeqsUpTo(Links, MaxItems)
    /\ articles = <<>>
    /\ crawl_retries \in 0..MaxRetries
    /\ kpc = "item"
    /\ ii = 1
    /\ attempt = 0
    /\ crawler = "none"
    /\ render = "idle"
    /\ pending = NoPending
    /\ outcomes = <<>>
    /\ sleeps = 0
    /\ lastResult = NoResult
    /\ sessions = 0
    /\ loop = "idle"

\* collect_keyword: article.body_markdown_fit / _raw from the pipeline's
\* value, articles.append(article), then the next item.
Deliver(markdown) ==
    /\ articles' = Append(articles, [link |-> items[ii],
                                     fit |-> markdown.fit,
                                     raw |-> markdown.raw])
    /\ ii' = ii + 1
    /\ kpc' = "item"

\* What the event loop can do while the task is at a statement: the task
\* is suspended at the await of __aenter__, of asyncio.wait_for or of
\* __aexit__ and the loop runs other work; the task is inside
\* time.sleep(self.crawl_delay), which returns only when the delay is over,
\* and the loop runs nothing; or the task is not waiting.
LoopAt(pc) ==
    IF pc \in {"enter", "run", "exit"} THEN "free"
    ELSE IF pc = "sleep" THEN "blocked"
    ELSE "idle"

\* for item in items: ...; if link: markdown = self._crawl_markdown(link)
NextItem ==
    /\ kpc = "item"
    /\ IF ii > Len(items)
         THEN /\ kpc' = "done"
              /\ UNCHANGED <<articles, ii, attempt, outcomes, sleeps,
                             lastResult, crawler, render>>
         ELSE /\ outcomes' = <<>>
              /\ sleeps' = 0
              /\ lastResult' = NoResult
              /\ crawler' = "none"
              /\ render' = "idle"
              /\ IF items[ii] = ""
                   THEN /\ Deliver(Marker)
                        /\ UNCHANGED attempt
                   ELSE /\ kpc' = "attempt"
                        /\ attempt' = 0
                        /\ UNCHANGED <<articles, ii>>
    /\ UNCHANGED <<items, crawl_retries, pending, sessions>>
    /\ loop' = LoopAt(kpc')
    /\ UNCHANGED notCrawl

AttemptsOneMore(retries) == retries + 2

\* for attempt in range(self.crawl_retries + 1)
Attempts(retries) == retries + 1

\* The loop header: one more attempt, or the loop is exhausted and the
\* failure marker is returned to collect_keyword.
BeginAttempt ==
    /\ kpc = "attempt"
    /\ IF attempt < Attempts(crawl_retries)
         THEN /\ kpc' = "enter"
              /\ UNCHANGED <<articles, ii>>
         ELSE Deliver(Marker)
    /\ UNCHANGED <<items, crawl_retries, attempt, crawler, render, pending,
                   outcomes, sleeps, lastResult, sessions>>
    /\ loop' = LoopAt(kpc')
    /\ UNCHANGED notCrawl

CatchesOnlyErrors(kind) == kind = "Exception"

\* except Exception: asyncio.TimeoutError is an Exception too.
Catches(kind) == kind \in {"Exception", "TimeoutError"}

\* async with AsyncWebCrawler(config=self._browser_config) as crawler
EnterCrawler ==
    /\ kpc = "enter"
    /\ \/ /\ crawler' = "open"
          /\ sessions' = sessions + 1
          /\ render' = "running"
          /\ kpc' = "run"
          /\ UNCHANGED outcomes
       \/ /\ crawler' = "none"
          /\ render' = "idle"
          /\ outcomes' = Append(outcomes, "error")
          /\ kpc' = IF Catches("Exception") THEN "sleep" ELSE "raised"
          /\ UNCHANGED sessions
    /\ UNCHANGED <<items, articles, crawl_retries, ii, attempt, pending,
                   sleeps, lastResult>>
    /\ loop' = LoopAt(kpc')
    /\ UNCHANGED notCrawl

JudgedBySuccessFlag(result) == result.success

\* if fit_md or raw_md
HasContent(result) == Truthy(result.fit) \/ Truthy(result.raw)

ReturnUnfilled(result) == [fit |-> result.fit, raw |-> result.raw]

\* return {"fit": fit_md or raw_md, "raw": raw_md or fit_md}
ReturnValue(result) ==
    [fit |-> IF Truthy(result.fit) THEN result.fit ELSE result.raw,
     raw |-> IF Truthy(result.raw) THEN result.raw ELSE result.fit]

TimedOutRenderShielded == "running"

\* asyncio.wait_for cancels the awaited render when the timeout expires.
TimedOutRender == "cancelled"

\* result = await asyncio.wait_for(_run(), timeout=self.crawl_timeout) and
\* the judgement of the result, up to the point where the async-with block
\* is left.
Arun ==
    /\ kpc = "run"
    /\ \/ /\ render' = TimedOutRender
          /\ pending' = [kind |-> "TimeoutError", value |-> None]
          /\ outcomes' = Append(outcomes, "timeout")
          /\ UNCHANGED lastResult
       \/ /\ render' = "failed"
          /\ pending' = [kind |-> "Exception", value |-> None]
          /\ outcomes' = Append(outcomes, "error")
          /\ UNCHANGED lastResult
       \/ \E result \in Results :
            /\ render' = "done"
            /\ lastResult' = result
            /\ IF HasContent(result)
                 THEN /\ pending' = [kind |-> "return",
                                     value |-> ReturnValue(result)]
                      /\ outcomes' = Append(outcomes, "content")
                 ELSE /\ pending' = [kind |-> "fall", value |-> None]
                      /\ outcomes' = Append(outcomes, "empty")
    /\ kpc' = "exit"
    /\ UNCHANGED <<items, articles, crawl_retries, ii, attempt, crawler,
                   sleeps, sessions>>
    /\ loop' = LoopAt(kpc')
    /\ UNCHANGED notCrawl

KeptOpen(open) == open

\* __aexit__ of the async-with statement: the session of the attempt is
\* no longer open.
Released(open) == open - 1

\* Leaving the async-with block closes the crawler of the attempt, whatever
\* leaves it; then the return, the except clause or the fall-through.
ExitCrawler ==
    /\ kpc = "exit"
    /\ crawler' = "closed"
    /\ sessions' = Released(sessions)
    /\ pending' = NoPending
    /\ IF pending.kind = "return"
         THEN Deliver(pending.value)
         ELSE /\ kpc' = IF pending.kind = "fall" \/ Catches(pending.kind)
                          THEN "sleep" ELSE "raised"
              /\ UNCHANGED <<articles, ii>>
    /\ UNCHANGED <<items, crawl_retries, attempt, render, outcomes, sleeps,
                   lastResult>>
    /\ loop' = LoopAt(kpc')
    /\ UNCHANGED notCrawl

SleptNot(count) == count

\* time.sleep(self.crawl_delay): one more delay has elapsed.
Slept(count) == count + 1

\* time.sleep(self.crawl_delay), then the next iteration.
Sleep ==
    /\ kpc = "sleep"
    /\ sleeps' = Slept(sleeps)
    /\ attempt' = attempt + 1
    /\ kpc' = "attempt"
    /\ UNCHANGED <<items, articles, crawl_retries, ii, crawler, render,
                   pending, outcomes, lastResult, sessions>>
    /\ loop' = LoopAt(kpc')
    /\ UNCHANGED notCrawl

NextCrawl ==
    \/ NextItem
    \/ BeginAttempt
    \/ EnterCrawler
    \/ Arun
    \/ ExitCrawler
    \/ Sleep

(***************************************************************************)
(* hwpx/parsers.py : normalize_preview_urls                                *)
(*                                                                         *)
(* A url is a sequence of tokens, each standing for the substring it       *)
(* names.  Two urls are ordered as Python orders the strings they stand    *)
(* for: by the code points of the first character in which they differ.    *)
(***************************************************************************)
SP == " "
ENC == "%20"
IFRAME_KEY == "docviewer/skin/doc.html"
HTTP == "http"
PLAIN == "x"
HANGUL == "U+AC00"
SECURE == "s"
SCHEME_SEP == "://"
HOST == "x.go.kr"
SLASH == "/"
FN == "?fn="
NAME == "a.hwpx"
RS == "&rs="
R1 == "r/1"
RESULT == "docviewer/result/"
ARGS == "ntc0021/49374/1"
YYYY_MM == "202509"
HOME == "home"
SYNAP == "synapviewer.do?fileSn=1"

\* Code points of the characters of a token.
CodePoints(token) ==
    CASE token = SP -> <<32>>
      [] token = ENC -> <<37, 50, 48>>
      [] token = IFRAME_KEY ->
            <<100, 111, 99, 118, 105, 101, 119, 101, 114, 47, 115, 107, 105,
              110, 47, 100, 111, 99, 46, 104, 116, 109, 108>>
      [] token = HTTP -> <<104, 116, 116, 112>>
      [] token = PLAIN -> <<120>>
      [] token = HANGUL -> <<44032>>
      [] token = SECURE -> <<115>>
      [] token = SCHEME_SEP -> <<58, 47, 47>>
      [] token = HOST -> <<120, 46, 103, 111, 46, 107, 114>>
      [] token = SLASH -> <<47>>
      [] token = FN -> <<63, 102, 110, 61>>
      [] token = NAME -> <<97, 46, 104, 119, 112, 120>>
      [] token = RS -> <<38, 114, 115, 61>>
      [] token = R1 -> <<114, 47, 49>>
      [] token = RESULT ->
            <<100, 111, 99, 118, 105, 101, 119, 101, 114, 47, 114, 101, 115,
              117, 108, 116, 47>>
      [] token = ARGS ->
            <<110, 116, 99, 48, 48, 50, 49, 47, 52, 57, 51, 55, 52, 47, 49>>
      [] token = YYYY_MM -> <<50, 48, 50, 53, 48, 57>>
      [] token = HOME -> <<104, 111, 109, 101>>
      [] token = SYNAP ->
            <<115, 121, 110, 97, 112, 118, 105, 101, 119, 101, 114, 46, 100,
              111, 63, 102, 105, 108, 101, 83, 110, 61, 49>>

\* The characters of a url, as code points.
RECURSIVE Characters(_)
Characters(s) ==
    IF Len(s) = 0 THEN <<>> ELSE CodePoints(Head(s)) \o Characters(Tail(s))

\* Order of two strings given by their code points.
CodePointsLess(a, b) ==
    LET differ == {i \in 1..Len(a) : i <= Len(b) /\ a[i] # b[i]}
    IN IF differ = {}
         THEN Len(a) < Len(b)
         ELSE LET first == CHOOSE i \in differ : \A j \in differ : i <= j
              IN a[first] < b[first]

\* str.__lt__
RECURSIVE StrLess(_, _)
StrLess(s, t) ==
    IF Len(t) = 0 THEN FALSE
    ELSE IF Len(s) = 0 THEN TRUE
    ELSE IF s[1] # t[1] THEN CodePointsLess(Characters(s), Characters(t))
    ELSE StrLess(Tail(s), Tail(t))

\* sorted(set(urls))
RECURSIVE Sorted(_)
Sorted(S) ==
    IF S = {} THEN <<>>
    ELSE LET least == CHOOSE u \in S : \A v \in S \ {u} : StrLess(u, v)
         IN <<least>> \o Sorted(S \ {least})

\* str.strip(): leading and trailing whitespace removed.
RECURSIVE Strip(_)
Strip(s) ==
    IF Len(s) = 0 THEN s
    ELSE IF s[1] = SP THEN Strip(Tail(s))
    ELSE IF s[Len(s)] = SP THEN Strip(SubSeq(s, 1, Len(s) - 1))
    ELSE s

\* str.replace(" ", "%20")
EncodeSpaces(s) == [i \in 1..Len(s) |-> IF s[i] = SP THEN ENC ELSE s[i]]

\* clean.startswith("http")
StartsWithHttp(s) == Len(s) > 0 /\ s[1] = HTTP

\* "docviewer/skin/doc.html" in clean
ContainsKey(s) == \E i \in 1..Len(s) : s[i] = IFRAME_KEY

\* any("가" <= ch <= "힣" for ch in text)
ContainsHangul(s) == \E i \in 1..Len(s) : s[i] = HANGUL

\* The body of the for loop: whether url is appended to normalized.
Accepted(url) ==
    /\ url # <<>>
    /\ StartsWithHttp(Strip(url))
    /\ ContainsKey(Strip(url))
    /\ ~ContainsHangul(Strip(url))

RECURSIVE MapSeq(_, _)
MapSeq(Op(_), s) ==
    IF Len(s) = 0 THEN <<>> ELSE <<Op(Head(s))>> \o MapSeq(Op, Tail(s))

CleanAccepted(url) == EncodeSpaces(Strip(url))

NonEmptyUrl(url) == url # <<>>

FallbackStripped(urls) ==
    MapSeq(CleanAccepted, SelectSeq(Sorted(urls), NonEmptyUrl))

\* fallback = [url.replace(" ", "%20") for url in sorted(set(urls)) if url]
Fallback(urls) == MapSeq(EncodeSpaces, SelectSeq(Sorted(urls), NonEmptyUrl))

NormalizedOnly(urls) == MapSeq(CleanAccepted, SelectSeq(Sorted(urls), Accepted))

normalize_preview_urls(urls) ==
    LET normalized == MapSeq(CleanAccepted, SelectSeq(Sorted(urls), Accepted))
    IN IF Len(normalized) > 0 THEN normalized ELSE Fallback(urls)

\* The raw candidates: optional untrimmed space, "http", one more character
\* (ordinary, space, already encoded space, Hangul), viewer marker, trailing
\* space; the empty string among them; and the same behind "http://".
UrlPool ==
    {lead \o scheme \o mid \o key \o trail :
        lead \in {<<>>, <<SP>>},
        scheme \in {<<>>, <<HTTP>>},
        mid \in {<<>>, <<PLAIN>>, <<SP>>, <<ENC>>, <<HANGUL>>},
        key \in {<<>>, <<IFRAME_KEY>>},
        trail \in {<<>>, <<SP>>}}
    \cup {<<HTTP, SCHEME_SEP>> \o mid \o key \o trail :
        mid \in {<<>>, <<PLAIN>>, <<SP>>, <<ENC>>, <<HANGUL>>},
        key \in {<<>>, <<IFRAME_KEY>>},
        trail \in {<<>>, <<SP>>}}

InitNorm ==
    /\ raw \in SetsUpTo(UrlPool, MaxUrls)
    /\ once = <<>>
    /\ twice = <<>>
    /\ npc = "input"

\* extract_preview_urls: return normalize_preview_urls(urls)
Normalize ==
    /\ npc = "input"
    /\ once' = normalize_preview_urls(raw)
    /\ npc' = "normalized"
    /\ UNCHANGED <<raw, twice>>
    /\ UNCHANGED notNorm

\* collect_preview_urls: return normalize_preview_urls(urls), on the list
\* extract_preview_urls returned.
Renormalize ==
    /\ npc = "normalized"
    /\ twice' = normalize_preview_urls(Range(once))
    /\ npc' = "renormalized"
    /\ UNCHANGED <<raw, once>>
    /\ UNCHANGED notNorm

NextNorm ==
    \/ Normalize
    \/ Renormalize

(***************************************************************************)
(* hwpx/parsers.py : the three strategies of extract_preview_urls, and     *)
(* hwpx/preview.py : collect_preview_urls.                                 *)
(*                                                                         *)
(* A page is the sequence, in document order, of the elements the          *)
(* selectors can match:                                                    *)
(*   "iframe"    an iframe with a src; inside says whether it lies within  *)
(*               div.bbs_file_preview, text is its src;                    *)
(*   "a.preview" an a.bbs_icon_preveiw with an onclick; onclick says       *)
(*               whether it matches fnConvertDocViewer('..','..','..'),    *)
(*               text is the label of the .bbs_file_cont > strong that     *)
(*               comes with it (empty: no such label);                     *)
(*   "a.viewer"  an a with an onclick that opens synapviewer.do; inside    *)
(*               says whether it lies within a div[id^='fileDiv'], text    *)
(*               is the viewer path.                                       *)
(* row is the li the element lies in (0: none).                            *)
(***************************************************************************)
NoSoup == "NoSoup"

\* base_url and the directory of page_url, for the page
\* https://x.go.kr/home/view.do
BASE_URL == <<HTTP, SECURE, SCHEME_SEP, HOST>>
PAGE_PATH == <<SLASH, HOME, SLASH>>

SrcA == <<SLASH, IFRAME_KEY, FN, NAME, RS, SLASH, R1>>
SrcResult ==
    <<SLASH, IFRAME_KEY, FN, NAME, RS, SLASH, RESULT, ARGS, SLASH, YYYY_MM>>
SrcHangul == <<SLASH, IFRAME_KEY, FN, HANGUL, RS, SLASH, R1>>
SrcOther == <<SLASH, HOME, SLASH, PLAIN>>

IframeElements ==
    [tag : {"iframe"}, inside : BOOLEAN, row : {0, 1}, onclick : {FALSE},
     text : {SrcA, SrcResult, SrcHangul, SrcOther}]

AnchorElements ==
    [tag : {"a.preview"}, inside : {FALSE}, row : {0, 1}, onclick : BOOLEAN,
     text : {<<>>, <<NAME>>, <<HANGUL>>}]

ViewerElements ==
    [tag : {"a.viewer"}, inside : BOOLEAN, row : {0}, onclick : {TRUE},
     text : {<<SYNAP>>}]

ElementPool == IframeElements \cup AnchorElements \cup ViewerElements

Pages == SeqsUpTo(ElementPool, MaxElems)

\* The pages a fetch of collect_preview_urls may bring.
FetchedPages == SeqsUpTo(ElementPool, MaxFetched)

\* urllib.parse.urljoin(base, ref) for a base without a path
urljoin(base, ref) ==
    IF Len(ref) > 0 /\ ref[1] = HTTP THEN ref
    ELSE IF Len(ref) > 0 /\ ref[1] = SLASH THEN base \o ref
    ELSE base \o <<SLASH>> \o ref

\* soup.select("div.bbs_file_preview iframe[src]"), as positions
PreviewIframes(dom) ==
    {i \in 1..Len(dom) : dom[i].tag = "iframe" /\ dom[i].inside}

IframesWithoutMarkerTest(dom, base) ==
    {urljoin(base, dom[i].text) : i \in PreviewIframes(dom)}

\* _extract_urls_from_iframes
ExtractUrlsFromIframes(dom, base) ==
    {urljoin(base, dom[i].text) :
        i \in {j \in PreviewIframes(dom) : ContainsKey(dom[j].text)}}

\* re.search(r"[?&]rs=([^&]+)", src): group 1, or None
RsValue(src) ==
    LET at == {i \in 1..Len(src) : src[i] = RS /\ i < Len(src)}
    IN IF at = {} THEN None
       ELSE LET first == CHOOSE i \in at : \A j \in at : i <= j
            IN SubSeq(src, first + 1, Len(src))

First(positions) == CHOOSE i \in positions : \A j \in positions : i <= j

\* _find_any_rs_suffix
FindAnyRsSuffix(dom) ==
    LET found == {i \in PreviewIframes(dom) :
                     \E k \in 1..Len(dom[i].text) : dom[i].text[k] = RESULT}
    IN IF found = {} THEN None ELSE RsValue(dom[First(found)].text)

\* rs_suffix.strip("/").split("/")[-1]; the suffixes of the pages end in
\* their year-month segment.
LastSegment(rs_suffix) == rs_suffix[Len(rs_suffix)]

\* li.select_one(".bbs_file_cont > strong").get_text(strip=True), or None
FilenameOfRow(dom, row) ==
    LET labelled == {i \in 1..Len(dom) :
                        /\ dom[i].tag = "a.preview"
                        /\ dom[i].row = row
                        /\ dom[i].text # <<>>}
    IN IF row = 0 \/ labelled = {} THEN None ELSE dom[First(labelled)].text

\* li.select_one("div.bbs_file_preview iframe[src]") and its rs, or None
RsOfRow(dom, row) ==
    LET inRow == {i \in PreviewIframes(dom) : dom[i].row = row}
    IN IF row = 0 \/ inRow = {} THEN None
       ELSE RsValue(dom[First(inRow)].text)

\* The body of the loop of _extract_urls_from_onclick for one anchor: the
\* urls it adds.
OnclickUrlsOf(dom, anchor, base) ==
    LET filename == FilenameOfRow(dom, anchor.row)
        rs_suffix == FindAnyRsSuffix(dom)
        own == RsOfRow(dom, anchor.row)
        rs == IF own # None THEN own
              ELSE IF rs_suffix # None
                THEN <<SLASH, RESULT, ARGS, SLASH, LastSegment(rs_suffix)>>
              ELSE None
    IN IF ~anchor.onclick \/ filename = None \/ rs = None THEN {}
       ELSE {urljoin(base, <<SLASH, IFRAME_KEY, FN>> \o filename
                              \o <<RS>> \o rs)}

\* _extract_urls_from_onclick
ExtractUrlsFromOnclick(dom, base) ==
    UNION {OnclickUrlsOf(dom, dom[i], base) :
              i \in {j \in 1..Len(dom) : dom[j].tag = "a.preview"}}

\* _extract_synapviewer_urls
ExtractSynapviewerUrls(dom, base, page_path) ==
    {urljoin(base, page_path \o dom[i].text) :
        i \in {j \in 1..Len(dom) :
                  /\ dom[j].tag = "a.viewer"
                  /\ dom[j].inside
                  /\ dom[j].onclick}}

\* extract_preview_urls: the union handed to normalize_preview_urls
RawUrls(dom) ==
    ExtractUrlsFromIframes(dom, BASE_URL)
        \cup ExtractUrlsFromOnclick(dom, BASE_URL)
        \cup ExtractSynapviewerUrls(dom, BASE_URL, PAGE_PATH)

InitResolve ==
    /\ soup \in Pages
    /\ raw = {}
    /\ once = <<>>
    /\ twice = <<>>
    /\ npc = "soup"
    /\ rendered = "none"
    /\ fetched = "none"

\* extract_preview_urls(soup, base_url, page_url)
ExtractPreviewUrls ==
    /\ npc = "soup"
    /\ raw' = RawUrls(soup)
    /\ once' = normalize_preview_urls(RawUrls(soup))
    /\ npc' = "resolved"
    /\ UNCHANGED <<twice, soup, rendered, fetched>>
    /\ UNCHANGED notPreview

NextResolve == ExtractPreviewUrls

InitPreview ==
    /\ raw = {}
    /\ once = <<>>
    /\ twice = <<>>
    /\ npc = "call"
    /\ soup = NoSoup
    /\ rendered = "none"
    /\ fetched = "none"

\* collect_preview_urls up to "if not urls": _render_html, and
\* extract_preview_urls on the rendered page when there is one.
RenderPage ==
    /\ npc = "call"
    /\ \/ /\ rendered' = "failed"
          /\ UNCHANGED <<soup, raw, once>>
       \/ \E html \in FetchedPages :
            /\ rendered' = "ok"
            /\ soup' = html
            /\ raw' = RawUrls(html)
            /\ once' = normalize_preview_urls(RawUrls(html))
    /\ npc' = IF once' = <<>> THEN "static" ELSE "return"
    /\ UNCHANGED <<twice, fetched>>
    /\ UNCHANGED notPreview

\* if not urls: requests.get; a RequestException returns []
StaticFetch ==
    /\ npc = "static"
    /\ \/ /\ fetched' = "failed"
          /\ twice' = <<>>
          /\ npc' = "returned"
          /\ UNCHANGED <<soup, raw, once>>
       \/ \E html \in FetchedPages :
            /\ fetched' = "ok"
            /\ soup' = html
            /\ raw' = RawUrls(html)
            /\ once' = normalize_preview_urls(RawUrls(html))
            /\ npc' = "return"
            /\ UNCHANGED twice
    /\ UNCHANGED rendered
    /\ UNCHANGED notPreview

\* return normalize_preview_urls(urls)
ReturnUrls ==
    /\ npc = "return"
    /\ twice' = normalize_preview_urls(Range(once))
    /\ npc' = "returned"
    /\ UNCHANGED <<raw, once, soup, rendered, fetched>>
    /\ UNCHANGED notPreview

NextPreview ==
    \/ RenderPage
    \/ StaticFetch
    \/ ReturnUrls

(***************************************************************************)
(* src/extract_hwpx_latest.py : the scroll loop that _scroll_and_get_text  *)
(* evaluates in a frame.                                                   *)
(***************************************************************************)
ScrollCap == 50
StallLimit == 3

\* The frames: the position changes for the last time at step after, or
\* (stabilizes false) goes on changing.
Frames ==
    [stabilizes : {TRUE}, after : 0..ScrollCap]
        \cup [stabilizes : {FALSE}, after : {0}]

\* window.scrollY after the scrollBy of step number step.
PositionsAfterScroll(step) ==
    IF frame.stabilizes /\ step > frame.after THEN {scrollY}
    ELSE IF frame.stabilizes /\ step = frame.after THEN {scrollY + 1}
    ELSE {scrollY, scrollY + 1}

StalledLater(count) == count >= StallLimit + 1

\* if (sameCount >= 3) break
Stalled(count) == count >= StallLimit

\* let lastY = -1, sameCount = 0; for (let i = 0; ...
InitScroll ==
    /\ frame \in Frames
    /\ scrollY = 0
    /\ lastY = -1
    /\ sameCount = 0
    /\ iter = 0
    /\ spc = "loop"
    /\ ended = "none"

\* One iteration of the for loop, and the test i < 50 that follows it.
ScrollStep ==
    /\ spc = "loop"
    /\ iter < ScrollCap
    /\ \E y \in PositionsAfterScroll(iter + 1) :
          /\ scrollY' = y
          /\ iter' = iter + 1
          /\ IF y = lastY
               THEN /\ sameCount' = sameCount + 1
                    /\ UNCHANGED lastY
               ELSE /\ sameCount' = 0
                    /\ lastY' = y
          /\ IF y = lastY /\ Stalled(sameCount + 1)
               THEN spc' = "done" /\ ended' = "break"
               ELSE IF iter + 1 >= ScrollCap
                 THEN spc' = "done" /\ ended' = "cap"
                 ELSE UNCHANGED <<spc, ended>>
    /\ UNCHANGED frame
    /\ UNCHANGED notScroll

NextScroll == ScrollStep

(***************************************************************************)
(* src/extract_hwpx_latest.py : _clean_text.  A text is the sequence of    *)
(* its characters: a letter, a space, a newline, a tab.                    *)
(***************************************************************************)
TextChars == {"a", " ", "\n", "\t"}

\* The characters the regular expression class \s and str.strip() take
\* for whitespace.
IsSpace(c) == c \in {" ", "\n", "\t"}

RECURSIVE SkipSpace(_)
SkipSpace(t) ==
    IF Len(t) > 0 /\ IsSpace(t[1]) THEN SkipSpace(Tail(t)) ELSE t

KeepWhitespace(t) == t

\* re.sub(r'\s+', ' ', text)
RECURSIVE CollapseWhitespace(_)
CollapseWhitespace(t) ==
    IF Len(t) = 0 THEN <<>>
    ELSE IF IsSpace(t[1]) THEN <<" ">> \o CollapseWhitespace(SkipSpace(t))
    ELSE <<t[1]>> \o CollapseWhitespace(Tail(t))

RECURSIVE SkipNewlines(_)
SkipNewlines(t) ==
    IF Len(t) > 0 /\ t[1] = "\n" THEN SkipNewlines(Tail(t)) ELSE t

\* re.sub(r'\n{3,}', '\n\n', text)
RECURSIVE LimitNewlines(_)
LimitNewlines(t) ==
    IF Len(t) = 0 THEN <<>>
    ELSE IF Len(t) >= 3 /\ t[1] = "\n" /\ t[2] = "\n" /\ t[3] = "\n"
      THEN <<"\n", "\n">> \o LimitNewlines(SkipNewlines(t))
    ELSE <<t[1]>> \o LimitNewlines(Tail(t))

\* text.strip()
RECURSIVE StripText(_)
StripText(t) ==
    IF Len(t) = 0 THEN t
    ELSE IF IsSpace(t[1]) THEN StripText(Tail(t))
    ELSE IF IsSpace(t[Len(t)]) THEN StripText(SubSeq(t, 1, Len(t) - 1))
    ELSE t

CleanWithoutStrip(t) ==
    IF Len(t) = 0 THEN <<>> ELSE LimitNewlines(CollapseWhitespace(t))

\* _clean_text
clean_text(t) ==
    IF Len(t) = 0 THEN <<>>
    ELSE StripText(LimitNewlines(CollapseWhitespace(t)))

InitClean ==
    /\ dirty \in SeqsUpTo(TextChars, MaxText)
    /\ cleaned = <<>>
    /\ tpc = "dirty"

\* text = self._clean_text(text)
CleanText ==
    /\ tpc = "dirty"
    /\ cleaned' = clean_text(dirty)
    /\ tpc' = "clean"
    /\ UNCHANGED dirty
    /\ UNCHANGED notClean

NextClean == CleanText

(***************************************************************************)
(* src/extract_hwpx_latest.py : _extract_text_with_iframe and the end of   *)
(* extract_text_from_url.  A frame is its body text, a sequence of         *)
(* characters; frames[1] is the main frame of the page.                    *)
(***************************************************************************)
FrameTexts == {<<>>, <<" ">>, <<"a">>, <<"a", "\n">>, <<"b">>}

\* How one call of _scroll_and_get_text may end: frame.evaluate returns the
\* text; it raises and frame.locator("body").inner_text() returns the text;
\* both raise.
ReadOutcomes == {"evaluate", "inner_text", "failed"}

\* The value _scroll_and_get_text returns.
TextOfRead(content, outcome) == IF outcome = "failed" THEN <<>> ELSE content

CollectOrReset(chunks, t) ==
    IF Len(t) > 0 THEN Append(chunks, StripText(t)) ELSE <<>>

\* if text: collected.append(text.strip())
Collect(chunks, t) ==
    IF Len(t) > 0 THEN Append(chunks, StripText(t)) ELSE chunks

HashOfLength(chunk) == Len(chunk)

\* hash(chunk): equal chunks have equal hashes, and the chunks of the
\* model have different ones.
Hash(chunk) == chunk

\* key = (len(chunk), hash(chunk))
ChunkKey(chunk) == <<Len(chunk), Hash(chunk)>>

\* for chunk in collected: if key not in seen and chunk: ...
RECURSIVE Uniq(_, _)
Uniq(chunks, seen) ==
    IF Len(chunks) = 0 THEN <<>>
    ELSE IF ChunkKey(Head(chunks)) \notin seen /\ Len(Head(chunks)) > 0
      THEN <<Head(chunks)>>
               \o Uniq(Tail(chunks), seen \cup {ChunkKey(Head(chunks))})
    ELSE Uniq(Tail(chunks), seen)

\* "\n\n".join(uniq)
RECURSIVE JoinChunks(_)
JoinChunks(chunks) ==
    IF Len(chunks) = 0 THEN <<>>
    ELSE IF Len(chunks) = 1 THEN chunks[1]
    ELSE chunks[1] \o <<"\n", "\n">> \o JoinChunks(Tail(chunks))

InitFrames ==
    /\ frames \in {f \in SeqsUpTo(FrameTexts, MaxFrames) : Len(f) >= 1}
    /\ inner \in {0} \cup (2..Len(frames))
    /\ cleaning \in BOOLEAN
    /\ collected = <<>>
    /\ fi = 1
    /\ merged = <<>>
    /\ ptext = <<>>
    /\ output = <<>>
    /\ xpc = "inner"
    /\ reads = <<>>

\* The first try block: wait_for_selector("iframe#innerWrap") raises when
\* the iframe is not there or does not show in time, and content_frame()
\* may give None; otherwise the inner frame is read, first of all.
ReadInnerFrame ==
    /\ xpc = "inner"
    /\ \/ UNCHANGED <<collected, reads>>
       \/ /\ inner # 0
          /\ \E outcome \in ReadOutcomes :
               /\ collected' =
                     Collect(collected, TextOfRead(frames[inner], outcome))
               /\ reads' = Append(reads, [frame |-> inner,
                                          got |-> outcome # "failed"])
    /\ xpc' = "walk"
    /\ UNCHANGED <<frames, inner, cleaning, fi, merged, ptext, output>>
    /\ UNCHANGED notFrames

\* for frame in self.page.frames: one iteration
WalkFrame ==
    /\ xpc = "walk"
    /\ fi <= Len(frames)
    /\ \E outcome \in ReadOutcomes :
         /\ collected' = Collect(collected, TextOfRead(frames[fi], outcome))
         /\ reads' = Append(reads, [frame |-> fi,
                                    got |-> outcome # "failed"])
    /\ fi' = fi + 1
    /\ xpc' = IF fi = Len(frames) THEN "merge" ELSE "walk"
    /\ UNCHANGED <<frames, inner, cleaning, merged, ptext, output>>
    /\ UNCHANGED notFrames

\* The removal of duplicates, the join, and "if merged.strip(): return
\* merged".
MergeChunks ==
    /\ xpc = "merge"
    /\ merged' = JoinChunks(Uniq(collected, {}))
    /\ IF Len(StripText(merged')) > 0
         THEN /\ ptext' = merged'
              /\ xpc' = "return"
         ELSE /\ xpc' = "body"
              /\ UNCHANGED ptext
    /\ UNCHANGED <<frames, inner, cleaning, collected, fi, output, reads>>
    /\ UNCHANGED notFrames

\* return await self.page.inner_text('body'); when it raises, the except
\* clause tries it once more and returns "" when that raises too.
BodyFallback ==
    /\ xpc = "body"
    /\ \E ok \in BOOLEAN : ptext' = IF ok THEN frames[1] ELSE <<>>
    /\ xpc' = "return"
    /\ UNCHANGED <<frames, inner, cleaning, collected, fi, merged, output,
                   reads>>
    /\ UNCHANGED notFrames

\* extract_text_from_url: if clean_text: text = self._clean_text(text);
\* return text
ReturnText ==
    /\ xpc = "return"
    /\ output' = IF cleaning THEN clean_text(ptext) ELSE ptext
    /\ xpc' = "done"
    /\ UNCHANGED <<frames, inner, cleaning, collected, fi, merged, ptext,
                   reads>>
    /\ UNCHANGED notFrames

NextFrames ==
    \/ ReadInnerFrame
    \/ WalkFrame
    \/ MergeChunks
    \/ BodyFallback
    \/ ReturnText

(***************************************************************************)
(* hwpx/kca.py and hwpx/mfds.py : the loops of collect over the items of   *)
(* a listing.  A preview url is a number; an item is the set of preview    *)
(* urls its page yields.                                                   *)
(***************************************************************************)
PreviewSets == {{}, {1}, {1, 2}}

\* list(urls) for a set: its elements in some order
ListsOf(S) == {f \in [1..Cardinality(S) -> S] : Range(f) = S}

\* The sorted list collect_preview_urls returns.
SortedList(S) ==
    CHOOSE f \in ListsOf(S) : \A i \in 1..Len(f) - 1 : f[i] < f[i + 1]

InitListing ==
    /\ site \in {"kca", "mfds"}
    /\ entries \in SeqsUpTo(PreviewSets, MaxEntries)
    /\ ei = 1
    /\ listed = <<>>
    /\ lpc = "loop"
    /\ lexc = "none"

\* KcaHwpxCollector.collect, one row: urls = ...extract_preview_urls(...),
\* documents.append(HwpxDocument(..., preview_urls=[urls[-1]], ...)).
\* urls[-1] of an empty list raises IndexError, which nothing catches.
KcaCollectRow ==
    /\ site = "kca"
    /\ lpc = "loop"
    /\ ei <= Len(entries)
    /\ \E urls \in ListsOf(entries[ei]) :
          IF Len(urls) = 0
            THEN /\ lpc' = "raised"
                 /\ lexc' = "IndexError"
                 /\ UNCHANGED <<ei, listed>>
            ELSE /\ listed' = Append(listed,
                                     [item |-> ei,
                                      preview_urls |-> <<urls[Len(urls)]>>])
                 /\ ei' = ei + 1
                 /\ UNCHANGED <<lpc, lexc>>
    /\ UNCHANGED <<site, entries>>
    /\ UNCHANGED notListing

\* MfdsHwpxCollector.collect, one entry: preview_urls =
\* collect_preview_urls(link); if not preview_urls: continue
MfdsCollectEntry ==
    /\ site = "mfds"
    /\ lpc = "loop"
    /\ ei <= Len(entries)
    /\ LET preview_urls == SortedList(entries[ei]) IN
          IF Len(preview_urls) = 0
            THEN UNCHANGED listed
            ELSE listed' = Append(listed, [item |-> ei,
                                           preview_urls |-> preview_urls])
    /\ ei' = ei + 1
    /\ UNCHANGED <<site, entries, lpc, lexc>>
    /\ UNCHANGED notListing

\* The loop is over: collect goes on to return documents.
FinishListing ==
    /\ lpc = "loop"
    /\ ei > Len(entries)
    /\ lpc' = "done"
    /\ UNCHANGED <<site, entries, ei, listed, lexc>>
    /\ UNCHANGED notListing

NextListing ==
    \/ KcaCollectRow
    \/ MfdsCollectEntry
    \/ FinishListing

(***************************************************************************)
(* Specifications.  Each runs one flow; the other flows stay idle.         *)
(***************************************************************************)
IdleBatch ==
    /\ documents = <<>>
    /\ playwright = "unset"
    /\ browser = "unset"
    /\ page = "unset"
    /\ bpc = "idle"
    /\ di = 1
    /\ ci = 1
    /\ last_text = None
    /\ exc = "none"
    /\ extracted = <<>>
    /\ closeLog = <<>>
    /\ failed = "never"
    /\ starts = 0
    /\ visited = <<>>
    /\ navigating = 0
    /\ crashed = FALSE

IdleCrawl ==
    /\ items = <<>>
    /\ articles = <<>>
    /\ crawl_retries = 0
    /\ kpc = "idle"
    /\ ii = 1
    /\ attempt = 0
    /\ crawler = "none"
    /\ render = "idle"
    /\ pending = NoPending
    /\ outcomes = <<>>
    /\ sleeps = 0
    /\ lastResult = NoResult
    /\ sessions = 0
    /\ loop = "idle"

IdleNorm ==
    /\ raw = {}
    /\ once = <<>>
    /\ twice = <<>>
    /\ npc = "idle"

IdlePreview ==
    /\ soup = NoSoup
    /\ rendered = "none"
    /\ fetched = "none"

IdleListing ==
    /\ site = "none"
    /\ entries = <<>>
    /\ ei = 1
    /\ listed = <<>>
    /\ lpc = "idle"
    /\ lexc = "none"

IdleClean ==
    /\ dirty = <<>>
    /\ cleaned = <<>>
    /\ tpc = "idle"

IdleScroll ==
    /\ frame = [stabilizes |-> TRUE, after |-> 0]
    /\ scrollY = 0
    /\ lastY = 0
    /\ sameCount = 0
    /\ iter = 0
    /\ spc = "idle"
    /\ ended = "none"

IdleFrames ==
    /\ frames = <<>>
    /\ inner = 0
    /\ cleaning = TRUE
    /\ collected = <<>>
    /\ fi = 1
    /\ merged = <<>>
    /\ ptext = <<>>
    /\ output = <<>>
    /\ xpc = "idle"
    /\ reads = <<>>

StartBatch ==
    /\ InitBatch
    /\ IdleCrawl
    /\ IdleNorm
    /\ IdlePreview
    /\ IdleScroll
    /\ IdleClean
    /\ IdleListing
    /\ IdleFrames

SpecBatch == StartBatch /\ [][NextBatch]_vars

StartCrawl ==
    /\ InitCrawl
    /\ IdleBatch
    /\ IdleNorm
    /\ IdlePreview
    /\ IdleScroll
    /\ IdleClean
    /\ IdleListing
    /\ IdleFrames

SpecCrawl == StartCrawl /\ [][NextCrawl]_vars

StartNorm ==
    /\ InitNorm
    /\ IdleBatch
    /\ IdleCrawl
    /\ IdlePreview
    /\ IdleScroll
    /\ IdleClean
    /\ IdleListing
    /\ IdleFrames

SpecNorm == StartNorm /\ [][NextNorm]_vars

StartResolve ==
    /\ InitResolve
    /\ IdleBatch
    /\ IdleCrawl
    /\ IdleScroll
    /\ IdleClean
    /\ IdleListing
    /\ IdleFrames

SpecResolve == StartResolve /\ [][NextResolve]_vars

StartPreview ==
    /\ InitPreview
    /\ IdleBatch
    /\ IdleCrawl
    /\ IdleScroll
    /\ IdleClean
    /\ IdleListing
    /\ IdleFrames

SpecPreview == StartPreview /\ [][NextPreview]_vars

StartScroll ==
    /\ InitScroll
    /\ IdleBatch
    /\ IdleCrawl
    /\ IdleNorm
    /\ IdlePreview
    /\ IdleClean
    /\ IdleListing
    /\ IdleFrames

SpecScroll == StartScroll /\ [][NextScroll]_vars

StartClean ==
    /\ InitClean
    /\ IdleBatch
    /\ IdleCrawl
    /\ IdleNorm
    /\ IdlePreview
    /\ IdleScroll
    /\ IdleListing
    /\ IdleFrames

SpecClean == StartClean /\ [][NextClean]_vars

StartListing ==
    /\ InitListing
    /\ IdleBatch
    /\ IdleCrawl
    /\ IdleNorm
    /\ IdlePreview
    /\ IdleScroll
    /\ IdleClean
    /\ IdleFrames

SpecListing == StartListing /\ [][NextListing]_vars

StartFrames ==
    /\ InitFrames
    /\ IdleBatch
    /\ IdleCrawl
    /\ IdleNorm
    /\ IdlePreview
    /\ IdleScroll
    /\ IdleClean
    /\ IdleListing

SpecFrames == StartFrames /\ [][NextFrames]_vars

\* The two flows that hold a browser session: a run is one batch or one
\* collect_keyword.
StartSessions ==
    \/ StartBatch
    \/ StartCrawl

NextSessions ==
    \/ NextBatch
    \/ NextCrawl

SpecSessions == StartSessions /\ [][NextSessions]_vars

(***************************************************************************)
(* Properties of the batch (SpecBatch).                                    *)
(***************************************************************************)
NonEmptyAt(d) == {i \in 1..Len(extracted[d]) : Truthy(extracted[d][i])}

LastNonEmptyAt(d) ==
    CHOOSE i \in NonEmptyAt(d) : \A j \in NonEmptyAt(d) : j <= i

\* C1: once a document's candidates have all been extracted, a document
\* with some non-empty extraction has the text of the last non-empty one as
\* its content; an empty text after it does not overwrite it.
C1_LastNonEmptyWins ==
    \A d \in 1..Len(documents) :
        (d < di /\ NonEmptyAt(d) # {}) =>
            documents[d].content = extracted[d][LastNonEmptyAt(d)]

C1_Witness ==
    /\ bpc = "returned"
    /\ \E d \in 1..Len(documents) :
         /\ extracted[d] = <<"Hello", "">>
         /\ documents[d].content = "Hello"

\* C2: a document none of whose candidates returned non-empty text (no
\* candidates included) keeps its content unset; the batch raises only on a
\* failed start or a cancellation, and a batch that returns has extracted
\* every candidate of every document.
C2_ContentOnlyFromNonEmpty ==
    /\ \A d \in 1..Len(documents) :
         NonEmptyAt(d) = {} => documents[d].content = None
    /\ bpc = "returned" =>
         \A d \in 1..Len(documents) :
            Len(extracted[d]) = Len(documents[d].preview_urls)
    /\ bpc = "raised" => (exc = "CancelledError" \/ page = "unset")

C2_Witness ==
    /\ bpc = "returned"
    /\ Len(documents) = 2
    /\ Len(extracted[1]) > 0
    /\ NonEmptyAt(1) = {}
    /\ documents[1].content = None
    /\ documents[2].content = "Hello"

\* C3: when the batch has ended, by return or by exception, no resource of
\* the session is still live, and what was torn down was torn down in the
\* order page, browser, playwright.
C3_TornDownOnEveryExit ==
    bpc \in {"returned", "raised"} =>
        /\ page # "live"
        /\ browser # "live"
        /\ playwright # "live"
        /\ closeLog \in {<<>>, <<"page", "browser", "playwright">>}

JustExtracted == bpc \in {"extract", "document"} /\ Len(visited) > 0

LastVisitedDocument == visited[Len(visited)][1]

LastExtractedText ==
    extracted[LastVisitedDocument][Len(extracted[LastVisitedDocument])]

\* C17: a failing navigation or extraction makes session.extract return ""
\* without raising, and the same session goes on: the only error that
\* leaves the batch is one of the start, and a batch that returns has
\* extracted every candidate, those after a failing one included.
C17_FailureReturnsEmpty ==
    /\ (JustExtracted /\ failed = "last") =>
          /\ LastExtractedText = ""
          /\ exc = "none"
          /\ page = "live"
    /\ exc = "Error" => (page = "unset" /\ visited = <<>>)
    /\ starts <= 1
    /\ (failed # "never" /\ bpc = "returned") =>
          \A d \in 1..Len(documents) :
              Len(extracted[d]) = Len(documents[d].preview_urls)

\* After a failing url, a later url of the same session has given its text.
C17_Witness ==
    /\ JustExtracted
    /\ failed = "earlier"
    /\ LastExtractedText = "Hello"
    /\ starts = 1
    /\ page = "live"

StartFailed == exc = "Error" /\ page = "unset"

\* C18: when the browser cannot be started, populate_document_contents
\* raises for the whole batch after a single start, no document's content
\* is changed, and the collector still returns every document, each with
\* its content absent.
C18_StartFailureKeepsDocuments ==
    StartFailed =>
        /\ starts = 1
        /\ visited = <<>>
        /\ bpc \in {"raised", "collected"}
        /\ Len(documents) = Len(extracted)
        /\ \A d \in 1..Len(documents) : documents[d].content = None

\* The launch failed after playwright had started, and the collector has
\* returned its two documents.
C18_Witness ==
    /\ StartFailed
    /\ playwright = "live"
    /\ bpc = "collected"
    /\ Len(documents) = 2
    /\ \A d \in 1..Len(documents) : documents[d].content = None

\* The (document, url) pairs of the batch in input order, from document d on.
RECURSIVE InputOrderFrom(_)
InputOrderFrom(d) ==
    IF d > Len(documents) THEN <<>>
    ELSE [c \in 1..Len(documents[d].preview_urls) |->
             <<d, documents[d].preview_urls[c]>>] \o InputOrderFrom(d + 1)

\* C20: extractions happen one at a time and in input order: the urls
\* navigated to are an initial part of the batch in input order, when the
\* navigation of candidate j of document i starts every earlier extraction
\* has finished, and at most one navigation is in flight.
C20_OneAtATimeInOrder ==
    /\ navigating \in {0, 1}
    /\ Len(visited) <= Len(InputOrderFrom(1))
    /\ visited = SubSeq(InputOrderFrom(1), 1, Len(visited))
    /\ bpc = "goto" =>
          /\ navigating = 1
          /\ \A d \in 1..(di - 1) :
                Len(extracted[d]) = Len(documents[d].preview_urls)
          /\ Len(extracted[di]) = ci - 1
    /\ bpc # "goto" => navigating = 0

\* The second candidate of the second document is being navigated to.
C20_Witness ==
    /\ bpc = "goto"
    /\ di = 2
    /\ ci = 2
    /\ Len(visited) = 4
    /\ Len(extracted[1]) = 2
    /\ Len(extracted[2]) = 1

\* C22: a url is never navigated to on a session whose browser process is
\* gone: after a browser crash the session is discarded and a fresh one is
\* started before the next navigation; after a failure that left the
\* browser running the batch is still on its first session.
C22_CrashForcesFreshSession ==
    /\ bpc = "goto" => ~crashed
    /\ (failed # "never" /\ ~crashed) => starts = 1

(***************************************************************************)
(* Properties of the markdown pipeline (SpecCrawl).                        *)
(***************************************************************************)
\* The pipeline of item ii-1 has returned to collect_keyword.
Returned == kpc \in {"item", "done"} /\ ii > 1 /\ items[ii - 1] # ""

LastOutcome == IF Len(outcomes) = 0 THEN "none" ELSE outcomes[Len(outcomes)]

AttemptsStarted == Len(outcomes) + IF kpc \in {"enter", "run"} THEN 1 ELSE 0

\* C4: the pipeline never raises; when no attempt returned content the
\* article gets the failure marker (fit and raw absent) and is appended, and
\* collect_keyword ends with one article per item, in item order.
C4_ExhaustionReturnsMarker ==
    /\ kpc # "raised"
    /\ (Returned /\ "content" \notin Range(outcomes)) =>
          /\ Len(articles) = ii - 1
          /\ articles[ii - 1].link = items[ii - 1]
          /\ articles[ii - 1].fit = None
          /\ articles[ii - 1].raw = None
    /\ kpc = "done" =>
          /\ Len(articles) = Len(items)
          /\ \A k \in 1..Len(items) : articles[k].link = items[k]

C4_Witness ==
    /\ Returned
    /\ ii <= Len(items)
    /\ {"timeout", "error", "empty"} \subseteq Range(outcomes)
    /\ "content" \notin Range(outcomes)
    /\ articles[ii - 1].fit = None

\* C5 as stated: with retries configured to n >= 1, at most n attempts are
\* started for one url.
C5_AtMostRetriesAttempts ==
    crawl_retries >= 1 => AttemptsStarted <= crawl_retries

\* C5 amended: at most retries + 1 attempts are started for one url.
C5_AtMostRetriesPlusOne == AttemptsStarted <= crawl_retries + 1

C5_Witness ==
    /\ crawl_retries = 2
    /\ kpc = "run"
    /\ AttemptsStarted = 3

\* C6: no attempt is started after one that returned content; the pipeline
\* then returns that content (fit or raw filling in for the other) and has
\* slept one delay per earlier attempt.
C6_FirstContentReturned ==
    /\ kpc \in {"attempt", "enter", "run", "sleep"} =>
          "content" \notin Range(outcomes)
    /\ (Returned /\ "content" \in Range(outcomes)) =>
          /\ LastOutcome = "content"
          /\ sleeps = Len(outcomes) - 1
          /\ Truthy(articles[ii - 1].fit)
          /\ Truthy(articles[ii - 1].raw)
          /\ articles[ii - 1].fit = IF Truthy(lastResult.fit)
                                      THEN lastResult.fit ELSE lastResult.raw
          /\ articles[ii - 1].raw = IF Truthy(lastResult.raw)
                                      THEN lastResult.raw ELSE lastResult.fit

C6_Witness ==
    /\ Returned
    /\ crawl_retries = 1
    /\ outcomes = <<"timeout", "content">>
    /\ sleeps = 1
    /\ articles[ii - 1].raw = "Body text"

\* C7 as stated: content is returned only from a result that reports
\* success, and a result that reports success ends the retry loop.
C7_JudgedBySuccess ==
    /\ (Returned /\ LastOutcome = "content") => lastResult.success
    /\ (kpc = "exit" /\ render = "done" /\ lastResult.success) =>
          pending.kind = "return"

\* C7 amended: a result ends the retry loop and is returned exactly when it
\* carries non-empty fit or raw markdown, whatever success it reports.
C7_JudgedByMarkdown ==
    /\ (kpc = "exit" /\ render = "done") =>
          (pending.kind = "return" <=>
              (Truthy(lastResult.fit) \/ Truthy(lastResult.raw)))
    /\ (Returned /\ Truthy(articles[ii - 1].fit)) =>
          (Truthy(lastResult.fit) \/ Truthy(lastResult.raw))

C7_Witness ==
    /\ kpc = "exit"
    /\ render = "done"
    /\ ~lastResult.success
    /\ pending.kind = "return"

\* C8: after an attempt timed out its render is cancelled and its crawler
\* is closed before anything else happens; the timeout does not leave the
\* pipeline as an exception, and the pipeline returns after a timeout only
\* when that was the last attempt of the range.
C8_TimeoutIsAttemptFailure ==
    /\ kpc # "raised"
    /\ (LastOutcome = "timeout" /\ kpc # "run") => render = "cancelled"
    /\ (LastOutcome = "timeout" /\ kpc \notin {"run", "exit"}) =>
          crawler = "closed"
    /\ (LastOutcome = "timeout" /\ Returned) =>
          Len(outcomes) = crawl_retries + 1

C8_Witness ==
    /\ LastOutcome = "timeout"
    /\ kpc = "enter"
    /\ render = "cancelled"
    /\ crawler = "closed"

\* C28: every attempt that did not return content is followed by one
\* delay, the last one included: while an attempt is under way one delay
\* has been slept per earlier attempt, an attempt that ended without
\* content (a timeout, an exception, a result without markdown) goes to the
\* delay, and a pipeline that returns the failure marker has made
\* crawl_retries + 1 attempts and slept as many delays.
C28_OneDelayPerFailedAttempt ==
    /\ kpc \in {"attempt", "enter", "run"} =>
          /\ sleeps = Len(outcomes)
          /\ "content" \notin Range(outcomes)
    /\ kpc = "exit" =>
          (pending.kind = "return" <=> LastOutcome = "content")
    /\ kpc = "sleep" =>
          /\ LastOutcome \in {"timeout", "error", "empty"}
          /\ sleeps = Len(outcomes) - 1
    /\ (Returned /\ "content" \notin Range(outcomes)) =>
          /\ Len(outcomes) = crawl_retries + 1
          /\ sleeps = crawl_retries + 1
          /\ articles[ii - 1].fit = None

\* Three attempts, the first a result without markdown, and three delays.
C28_Witness ==
    /\ Returned
    /\ crawl_retries = 2
    /\ outcomes = <<"empty", "timeout", "error">>
    /\ sleeps = 3
    /\ articles[ii - 1].fit = None

\* The task is in one of the waits of the pipeline: the entry of the
\* crawler, the render, the exit of the crawler, the inter-attempt delay.
Waiting == kpc \in {"enter", "run", "exit", "sleep"}

\* C27: at every wait of the markdown pipeline the task has yielded to the
\* event loop, the inter-attempt delay included.
C27_WaitsYield == Waiting => loop = "free"

(***************************************************************************)
(* Properties of normalisation (SpecNorm).                                 *)
(***************************************************************************)
NoneAccepted == \A u \in raw : ~Accepted(u)

SpacesEncoded(u) == [i \in 1..Len(u) |-> IF u[i] = " " THEN "%20" ELSE u[i]]

\* C9 as stated: with a non-empty raw set none of which passes the filter,
\* the result is the raw set with spaces encoded, nothing dropped.
C9_FallbackIsRawEncoded ==
    (npc = "normalized" /\ raw # {} /\ NoneAccepted) =>
        Range(once) = {SpacesEncoded(u) : u \in raw}

\* C9 amended: the result holds one entry per non-empty raw candidate, that
\* candidate with its spaces encoded and otherwise unchanged; only the
\* empty string is dropped.
C9_FallbackIsNonEmptyRawEncoded ==
    (npc = "normalized" /\ raw # {} /\ NoneAccepted) =>
        /\ Range(once) = {SpacesEncoded(u) : u \in raw \ {<<>>}}
        /\ Len(once) = Cardinality(raw \ {<<>>})

C9_Witness ==
    /\ npc = "normalized"
    /\ NoneAccepted
    /\ <<>> \in raw
    /\ \E u \in raw : u # <<>> /\ u[1] = " "
    /\ Len(once) = 1

\* C10: normalising the normalised list returns it unchanged.
C10_Idempotent == npc = "renormalized" => twice = once

(***************************************************************************)
(* Properties of the resolver (SpecResolve).                               *)
(***************************************************************************)
FoundByStrategies ==
    ExtractUrlsFromIframes(soup, BASE_URL)
        \cup ExtractUrlsFromOnclick(soup, BASE_URL)
        \cup ExtractSynapviewerUrls(soup, BASE_URL, PAGE_PATH)

\* C11: the resolver returns an empty result exactly when none of the three
\* strategies produced a url for the page; when a strategy found something
\* the result is non-empty.
C11_EmptyOnlyWhenNothingFound ==
    npc = "resolved" => (once = <<>> <=> FoundByStrategies = {})

\* Something was found, nothing of it passes the filter, and the result is
\* non-empty.
C11_Witness ==
    /\ npc = "resolved"
    /\ FoundByStrategies # {}
    /\ \A u \in FoundByStrategies : ~Accepted(u)
    /\ once # <<>>

\* The page shows no onclick pattern and no viewer link: its only preview
\* pattern, if any, is the open iframe.
OpenIframesOnly ==
    \A i \in 1..Len(soup) :
        /\ ~(soup[i].tag = "a.preview" /\ soup[i].onclick)
        /\ ~(soup[i].tag = "a.viewer" /\ soup[i].inside)

\* The src values of the iframes inside the preview container that hold the
\* viewer-path marker, resolved against https://x.go.kr.
ResolvedMarkerSrcs ==
    {<<"http", "s", "://", "x.go.kr">> \o soup[i].text :
        i \in {j \in 1..Len(soup) :
                  /\ soup[j].tag = "iframe"
                  /\ soup[j].inside
                  /\ \E k \in 1..Len(soup[j].text) :
                        soup[j].text[k] = "docviewer/skin/doc.html"}}

ScenarioA ==
    <<[tag |-> "iframe", inside |-> TRUE, row |-> 0, onclick |-> FALSE,
       text |-> <<"/", "docviewer/skin/doc.html", "?fn=", "a.hwpx", "&rs=",
                  "/", "r/1">>]>>

ScenarioAResult ==
    <<<<"http", "s", "://", "x.go.kr", "/", "docviewer/skin/doc.html", "?fn=",
        "a.hwpx", "&rs=", "/", "r/1">>>>

C12_EmptyMeansNoPreviewFound ==
    (npc = "returned" /\ twice = <<>>) => (rendered = "ok" \/ fetched = "ok")

(***************************************************************************)
(* Properties of normalize_preview_urls, continued (SpecNorm).             *)
(***************************************************************************)
BeginsWithScheme(u) ==
    \/ Len(u) >= 2 /\ u[1] = "http" /\ u[2] = "://"
    \/ Len(u) >= 3 /\ u[1] = "http" /\ u[2] = "s" /\ u[3] = "://"

\* C13: when at least one candidate passes the filter, every url returned
\* begins with "http://" or "https://".
C13_ReturnedUrlsHaveHttpScheme ==
    (npc = "normalized" /\ \E u \in raw : Accepted(u)) =>
        \A i \in 1..Len(once) : BeginsWithScheme(once[i])

(***************************************************************************)
(* Properties of the scroll loop (SpecScroll).                             *)
(***************************************************************************)
\* C15 as stated: for a frame whose position stops changing after step k
\* (k < 50) the loop ends after at most k + 3 iterations, it ends at the
\* cap only when the position never stabilizes, and it never performs more
\* than 50 iterations.
C15_EndsWithinKPlusThree ==
    /\ iter <= 50
    /\ (spc = "done" /\ frame.stabilizes /\ frame.after < 50) =>
          iter <= frame.after + 3
    /\ (spc = "done" /\ ended = "cap") => ~frame.stabilizes

StepsToSettle == IF frame.after > 1 THEN frame.after ELSE 1

\* C15 amended: the loop ends after at most max(k, 1) + 3 iterations and
\* never after more than 50; it ends at the cap only when the position
\* never stabilizes or changed for the last time at step 48 or later.
C15_EndsWithinSettlePlusThree ==
    /\ iter <= 50
    /\ (spc = "done" /\ frame.stabilizes) => iter <= StepsToSettle + 3
    /\ (spc = "done" /\ ended = "cap") =>
          (~frame.stabilizes \/ frame.after >= 48)

\* A frame that never scrolls: the loop ends by its break after four
\* iterations.
C15_Witness ==
    /\ spc = "done"
    /\ frame.stabilizes
    /\ frame.after = 0
    /\ ended = "break"
    /\ iter = 4

(***************************************************************************)
(* Properties of the cleaning step (SpecClean).                            *)
(***************************************************************************)
Whitespace == {" ", "\n", "\t"}

\* C16: the cleaned text holds no run of three or more newlines, no two
\* consecutive spaces, and no leading or trailing whitespace.
C16_CleanedText ==
    tpc = "clean" =>
        /\ \A i \in 1..Len(cleaned) - 2 :
              ~(cleaned[i] = "\n" /\ cleaned[i + 1] = "\n"
                    /\ cleaned[i + 2] = "\n")
        /\ \A i \in 1..Len(cleaned) - 1 :
              ~(cleaned[i] = " " /\ cleaned[i + 1] = " ")
        /\ Len(cleaned) > 0 =>
              /\ cleaned[1] \notin Whitespace
              /\ cleaned[Len(cleaned)] \notin Whitespace

\* A text with leading spaces and a run of three newlines is cleaned to a
\* non-empty text.
C16_Witness ==
    /\ tpc = "clean"
    /\ \E i \in 1..Len(dirty) - 2 :
          dirty[i] = "\n" /\ dirty[i + 1] = "\n" /\ dirty[i + 2] = "\n"
    /\ Len(cleaned) > 0

(***************************************************************************)
(* Properties of the listing loops (SpecListing).                          *)
(***************************************************************************)
\* C19: an item whose page yields no preview url is not an error: the
\* collector, KCA or MFDS, raises no exception and goes on, so that when
\* its loop ends every item of the listing has been visited.
C19_NoPreviewIsNoError ==
    /\ lpc # "raised"
    /\ lpc = "done" => ei = Len(entries) + 1

\* C30: the url the KCA collector attaches to a document is determined by
\* the candidates its page yields: whatever order list(urls) gives them in,
\* the last one is the url attached.
C30_AttachedUrlFromContentAlone ==
    site = "kca" =>
        \A k \in 1..Len(listed) :
            \A order \in ListsOf(entries[listed[k].item]) :
                listed[k].preview_urls = <<order[Len(order)]>>

(***************************************************************************)
(* Properties of the browser sessions of both flows (SpecSessions).        *)
(***************************************************************************)
\* The batch is between its first navigation and the end of its loops.
InBatchLoops == bpc \in {"document", "extract", "goto"}

\* C21: a flow never holds two browser sessions.  The batch starts one
\* session, and holds it, not torn down, from before its first extraction
\* until its loops are over.  In the markdown pipeline at most one crawler
\* session is open; the session of an attempt is open only while the
\* attempt renders or leaves its async-with block, and it has been released
\* when the delay starts, when the next attempt begins and when the
\* pipeline has returned, whether the attempt returned, timed out or
\* raised.
C21_OneSessionAtATime ==
    /\ starts <= 1
    /\ InBatchLoops =>
          /\ starts = 1
          /\ playwright = "live"
          /\ browser # "unset"
          /\ page # "unset"
          /\ closeLog = <<>>
    /\ sessions <= 1
    /\ kpc \in {"run", "exit"} => sessions = 1
    /\ kpc \in {"item", "attempt", "enter", "sleep", "done", "raised"} =>
          sessions = 0

C21_Witness ==
    /\ kpc = "run"
    /\ outcomes = <<"timeout", "error">>
    /\ sessions = 1
    /\ crawler = "open"

(***************************************************************************)
(* Properties of the text of one page (SpecFrames).                        *)
(***************************************************************************)
\* The reads that brought a text with something in it besides whitespace.
TextReads ==
    {i \in 1..Len(reads) :
        reads[i].got /\ Len(StripText(frames[reads[i].frame])) > 0}

\* The trimmed text of the frame of the i-th read.
ChunkOfRead(i) == StripText(frames[reads[i].frame])

\* What the reads up to the n-th should have left in collected: the trimmed
\* text of each read that brought a non-empty text.
RECURSIVE ChunksRead(_)
ChunksRead(n) ==
    IF n = 0 THEN <<>>
    ELSE IF reads[n].got /\ Len(frames[reads[n].frame]) > 0
      THEN Append(ChunksRead(n - 1), ChunkOfRead(n))
    ELSE ChunksRead(n - 1)

\* t holds c as a substring.
Contains(t, c) ==
    \E k \in 1..(Len(t) - Len(c) + 1) : SubSeq(t, k, k + Len(c) - 1) = c

WalkOver == xpc \in {"merge", "body", "return", "done"}

\* C23: a frame whose read fails contributes nothing and the extraction
\* goes on: when the walk is over every frame of the page has been read,
\* the texts of the reads that succeeded have all been collected, each of
\* them is part of the text the extraction returns, and the returned text
\* is not empty when some read brought text.
C23_FrameFailureIsolated ==
    /\ WalkOver =>
          /\ \A f \in 1..Len(frames) :
                \E i \in 1..Len(reads) : reads[i].frame = f
          /\ collected = ChunksRead(Len(reads))
    /\ xpc \in {"return", "done"} =>
          \A i \in TextReads : Contains(ptext, ChunkOfRead(i))
    /\ xpc = "done" => (TextReads # {} => Len(output) > 0)

\* The read of a frame with text failed, a later frame was read, and its
\* text is what the extraction returned.
C23_Witness ==
    /\ xpc = "done"
    /\ \E i, j \in 1..Len(reads) :
          /\ i < j
          /\ ~reads[i].got
          /\ frames[reads[i].frame] = <<"b">>
          /\ reads[j].got
          /\ frames[reads[j].frame] = <<"a">>
    /\ output = <<"a">>

\* The elements of s[1..n] without those equal to an earlier one.
RECURSIVE FirstSeen(_, _)
FirstSeen(s, n) ==
    IF n = 0 THEN <<>>
    ELSE IF \E j \in 1..(n - 1) : s[j] = s[n] THEN FirstSeen(s, n - 1)
    ELSE Append(FirstSeen(s, n - 1), s[n])

\* The reads of the walk over self.page.frames: the last Len(frames) reads.
WalkReads == (Len(reads) - Len(frames) + 1)..Len(reads)

\* The non-empty texts, as the frames hold them, that the walk's reads up
\* to the n-th brought.
RECURSIVE WalkTexts(_)
WalkTexts(n) ==
    IF n \notin WalkReads THEN <<>>
    ELSE IF reads[n].got /\ Len(frames[reads[n].frame]) > 0
      THEN Append(WalkTexts(n - 1), frames[reads[n].frame])
    ELSE WalkTexts(n - 1)

\* The text of the inner frame, when the page has one and a read of it
\* brought a non-empty text.
InnerText ==
    IF \E i \in 1..Len(reads) :
          /\ reads[i].frame = inner
          /\ reads[i].got
          /\ Len(frames[inner]) > 0
      THEN <<frames[inner]>>
      ELSE <<>>

MergeDone == xpc \in {"body", "return", "done"}

\* C24 as stated: the merged text is the distinct non-empty frame texts,
\* each once, the inner frame's text first when the page has that frame,
\* the others in the order of the frames, joined by a blank line.
C24_MergedAsStated ==
    MergeDone =>
        LET texts == InnerText \o WalkTexts(Len(reads))
        IN merged = JoinChunks(FirstSeen(texts, Len(texts)))

\* The trimmed texts of the reads up to the n-th that brought a text with
\* something in it besides whitespace.
RECURSIVE ChunksWithText(_)
ChunksWithText(n) ==
    IF n = 0 THEN <<>>
    ELSE IF n \in TextReads THEN Append(ChunksWithText(n - 1), ChunkOfRead(n))
    ELSE ChunksWithText(n - 1)

\* How many times t holds c as a substring.
Occurrences(t, c) ==
    Cardinality({k \in 1..(Len(t) - Len(c) + 1) :
                    SubSeq(t, k, k + Len(c) - 1) = c})

\* The inner frame was found and read before the walk.
TargetedRead == Len(reads) = Len(frames) + 1

\* C24 amended: the merged text is the distinct trimmed texts of the reads
\* that brought non-blank text, each once, in the order of the reads (the
\* targeted read of the inner frame, then the frames of the page), joined
\* by a blank line; it begins with the inner frame's text when the targeted
\* read brought one, and that text, read again in the walk, is there once.
C24_MergedTrimmedInReadOrder ==
    MergeDone =>
        LET chunks == ChunksWithText(Len(reads)) IN
        /\ merged = JoinChunks(FirstSeen(chunks, Len(chunks)))
        /\ (TargetedRead /\ 1 \in TextReads) =>
              SubSeq(merged, 1, Len(ChunkOfRead(1))) = ChunkOfRead(1)
        /\ \A i \in TextReads : Occurrences(merged, ChunkOfRead(i)) = 1

\* The inner frame gave its text to the targeted read and again to the
\* walk; the merged text has it once, before the text of the main frame.
C24_Witness ==
    /\ xpc = "return"
    /\ frames = <<<<"a">>, <<"b">>>>
    /\ inner = 2
    /\ TextReads = {1, 2, 3}
    /\ merged = <<"b", "\n", "\n", "a">>

\* " ".join(chunks)
RECURSIVE JoinBySpace(_)
JoinBySpace(chunks) ==
    IF Len(chunks) = 0 THEN <<>>
    ELSE IF Len(chunks) = 1 THEN chunks[1]
    ELSE chunks[1] \o <<" ">> \o JoinBySpace(Tail(chunks))

\* C29: with clean_text enabled the text extract_text_from_url returns has
\* no newline in it; when the merge step joined chunks by a blank line,
\* what is returned is those chunks separated by single spaces.
C29_NoNewlineAfterCleaning ==
    (xpc = "done" /\ cleaning) =>
        /\ \A k \in 1..Len(output) : output[k] # "\n"
        /\ Len(merged) > 0 =>
              LET chunks == ChunksWithText(Len(reads))
              IN output = JoinBySpace(FirstSeen(chunks, Len(chunks)))

C29_Witness ==
    /\ xpc = "done"
    /\ cleaning
    /\ merged = <<"a", "\n", "\n", "b">>
    /\ output = <<"a", " ", "b">>

(***************************************************************************)
(* Properties of the resolver's result, continued (SpecNorm, SpecResolve). *)
(***************************************************************************)
\* C25: the list the resolver returns holds no url twice.
C25_NoUrlTwice ==
    npc = "normalized" =>
        \A i, j \in 1..Len(once) : once[i] = once[j] => i = j

\* The part of a url before its query string.
PathOf(url) ==
    LET queries == {k \in 1..Len(url) : url[k] = FN}
    IN IF queries = {} THEN url ELSE SubSeq(url, 1, First(queries) - 1)

\* The candidate passes the tests that come before the Hangul filter.
ReachesHangulFilter(url) ==
    /\ url # <<>>
    /\ StartsWithHttp(Strip(url))
    /\ ContainsKey(Strip(url))

\* C26: a candidate that reaches the Hangul filter is rejected by it
\* exactly when the path of its url holds a Hangul character; when some
\* candidate is accepted, a candidate with a Hangul-free path is in the
\* result whatever its query string holds.
C26_HangulFilterTestsPath ==
    (npc = "resolved" /\ \E v \in raw : Accepted(v)) =>
        \A u \in {v \in raw : ReachesHangulFilter(v)} :
            (CleanAccepted(u) \in Range(once))
                <=> ~ContainsHangul(PathOf(Strip(u)))

====
